---- MODULE Spec2Model ----
(***************************************************************************)
(* kleinboy: the article / tag collection pipeline (kleinboy.ts).          *)
(*                                                                         *)
(* JavaScript strings are modelled as sequences of one-character strings,  *)
(* so that length, slicing and the whitespace regexps act on characters.   *)
(* A nullish value (null or undefined; the code only tests "== null",      *)
(* "??" and "?.") is the record Undef, a present one is Some(v).           *)
(***************************************************************************)
EXTENDS Integers, Sequences, FiniteSets, TLC

VARIABLES
    doc,        \* the parsed markdown AST (processor.parse's result)
    nodes,      \* how many nodes the parser has put under the root of doc
    input,      \* the arguments of the call under study (Undef before it)
    out,        \* what that call returned (Undef before it)
    config,         \* execute's Config
    stage,          \* execute: index of the running statement in ExecuteStages
    abort,          \* Some(cause) once execute has thrown
    globbed,        \* collectArticles: Some(glob's result) once it has run
    next,           \* collectArticles: index in globbed of the next file
    result,         \* collectArticles: the result object
    articles,       \* execute: Some(ArticleRegistry) once collectArticles returned
    tagToArticleIndicesMap, \* collectTags: Some(object) once it is built
    tagKeys,        \* collectTags: the keys whose tag page is still to be probed
    tags,           \* collectTags: the tags object
    tagRegistry,    \* execute: Some(TagRegistry) once collectTags returned
    inflight,       \* debug writes issued and not awaited, not yet settled
    disk,           \* paths of the files this run has written
    dumpFailures    \* debug dump steps that failed, each with its article

textVars == <<doc, nodes, input, out>>
runVars == <<config, stage, abort, globbed, next, result, articles,
             tagToArticleIndicesMap, tagKeys, tags, tagRegistry,
             inflight, disk, dumpFailures>>
vars == <<doc, nodes, input, out, config, stage, abort, globbed, next, result,
          articles, tagToArticleIndicesMap, tagKeys, tags, tagRegistry,
          inflight, disk, dumpFailures>>

(***************************************************************************)
(* Bounds of the model.                                                    *)
(***************************************************************************)
MaxNodes == 4       \* nodes parsed into one document, the root aside
MaxLength == 3      \* largest maxLength option handed to extractDescription
MaxEllipsis == 2    \* longest ellipsis option handed to extractDescription

(***************************************************************************)
(* Values.                                                                 *)
(***************************************************************************)
Undef == [defined |-> FALSE]
Some(v) == [defined |-> TRUE, val |-> v]
\* JavaScript's  x ?? d
OrElse(x, d) == IF x.defined THEN x.val ELSE d

Whitespace == {" ", "\t"}
Placeholder == <<".", ".", ".">>

(***************************************************************************)
(* unist nodes: a type tag, an optional string value (leaves), an optional *)
(* url (images) and an optional ordered list of children.                  *)
(***************************************************************************)
Leaf(type, value) ==
    [type |-> type, value |-> Some(value), url |-> Undef,
     hasChildren |-> FALSE, children |-> <<>>]
Image(url, alt) ==
    [type |-> "image", value |-> Undef, url |-> Some(url), alt |-> alt,
     hasChildren |-> FALSE, children |-> <<>>]
Parent(type, children) ==
    [type |-> type, value |-> Undef, url |-> Undef,
     hasChildren |-> TRUE, children |-> children]

\* The visitor extractDescription passes to findTexts, and no visitor at all.
NoVisitor == "none"
SkipHeadings == "skipHeadings"
Visit(visitor, node) ==
    IF visitor = SkipHeadings THEN node.type # "heading" ELSE TRUE

\* findTexts without the test of the node type: every string value goes out.
RECURSIVE findTextsAnyValue(_, _)
RECURSIVE findTextsAnyValueOfChildren(_, _)
findTextsAnyValue(node, visitor) ==
    IF visitor # NoVisitor /\ ~Visit(visitor, node) THEN <<>>
    ELSE IF node.value.defined THEN <<node.value.val>>
    ELSE IF node.hasChildren
         THEN findTextsAnyValueOfChildren(node.children, visitor)
    ELSE IF node.type \in {"code", "image"} THEN <<Placeholder>>
    ELSE <<>>
findTextsAnyValueOfChildren(children, visitor) ==
    IF children = <<>> THEN <<>>
    ELSE findTextsAnyValue(Head(children), visitor)
             \o findTextsAnyValueOfChildren(Tail(children), visitor)

RECURSIVE findTexts(_, _)
RECURSIVE findTextsOfChildren(_, _)
findTexts(node, visitor) ==
    IF visitor # NoVisitor /\ ~Visit(visitor, node) THEN <<>>
    ELSE IF node.type \in {"text", "inlineCode"} /\ node.value.defined
         THEN <<node.value.val>>
    ELSE IF node.hasChildren THEN findTextsOfChildren(node.children, visitor)
    ELSE IF node.type \in {"code", "image"} THEN <<Placeholder>>
    ELSE <<>>
findTextsOfChildren(children, visitor) ==
    IF children = <<>> THEN <<>>
    ELSE findTexts(Head(children), visitor)
             \o findTextsOfChildren(Tail(children), visitor)

\* Array.prototype.join
RECURSIVE Join(_, _)
Join(texts, sep) ==
    IF texts = <<>> THEN <<>>
    ELSE IF Len(texts) = 1 THEN texts[1]
    ELSE texts[1] \o sep \o Join(Tail(texts), sep)

Min(a, b) == IF a < b THEN a ELSE b
Max(a, b) == IF a > b THEN a ELSE b

\* String.prototype.slice(0, end): a negative end counts from the end.
Slice0(s, end) ==
    LET n == Len(s)
        e == IF end < 0 THEN Max(n + end, 0) ELSE Min(end, n)
    IN SubSeq(s, 1, e)

\* s.replace(/(^\s|\s$)/, ""): no g flag, so only the leftmost match goes:
\* one leading whitespace character, or else one trailing one.
ReplaceEdgeWhitespace(s) ==
    IF s # <<>> /\ s[1] \in Whitespace THEN Tail(s)
    ELSE IF s # <<>> /\ s[Len(s)] \in Whitespace THEN SubSeq(s, 1, Len(s) - 1)
    ELSE s

\* s.replace(/\s+/, " "): no g flag, so only the leftmost run of whitespace
\* is replaced by one space.
ReplaceWhitespaceRun(s) ==
    LET ws == {i \in 1..Len(s) : s[i] \in Whitespace} IN
    IF ws = {} THEN s
    ELSE LET i == CHOOSE k \in ws : \A l \in ws : k <= l
             j == CHOOSE k \in i..Len(s) :
                      /\ \A l \in i..k : s[l] \in Whitespace
                      /\ (k = Len(s) \/ s[k + 1] \notin Whitespace)
         IN SubSeq(s, 1, i - 1) \o <<" ">> \o SubSeq(s, j + 1, Len(s))

DefaultMaxLength == 200
DefaultEllipsis == <<".", ".", ".">>
DefaultUntitled == <<"(", "U", "n", "t", "i", "t", "l", "e", "d", ")">>

\* The text extractDescription truncates: the joined texts after the two
\* replace calls.
DescriptionSource(node) ==
    ReplaceWhitespaceRun(
        ReplaceEdgeWhitespace(Join(findTexts(node, SkipHeadings), <<" ">>)))

\* options is Undef or Some([maxLength |-> .., ellipsis |-> ..]), each field
\* Undef or Some(..).
extractDescription(node, options) ==
    LET maxLength == IF options.defined
                     THEN OrElse(options.val.maxLength, DefaultMaxLength)
                     ELSE DefaultMaxLength
        ellipsis == IF options.defined
                    THEN OrElse(options.val.ellipsis, DefaultEllipsis)
                    ELSE DefaultEllipsis
        source == DescriptionSource(node)
    IN IF Len(source) <= maxLength THEN source
       ELSE Slice0(source, maxLength - Len(ellipsis)) \o ellipsis

RECURSIVE extractTitle(_)
RECURSIVE extractTitleOfChildren(_)
extractTitle(node) ==
    IF node.type = "heading" THEN Some(Join(findTexts(node, NoVisitor), <<" ">>))
    ELSE IF node.hasChildren THEN extractTitleOfChildren(node.children)
    ELSE Undef
extractTitleOfChildren(children) ==
    IF children = <<>> THEN Undef
    ELSE LET title == extractTitle(Head(children)) IN
         IF title.defined THEN title
         ELSE extractTitleOfChildren(Tail(children))

RECURSIVE extractImages(_)
RECURSIVE extractImagesOfChildren(_)
extractImages(node) ==
    IF node.type = "image" THEN <<node.url.val>>
    ELSE IF node.hasChildren THEN extractImagesOfChildren(node.children)
    ELSE <<>>
extractImagesOfChildren(children) ==
    IF children = <<>> THEN <<>>
    ELSE extractImages(Head(children)) \o extractImagesOfChildren(Tail(children))

(***************************************************************************)
(* The parser (processor.parse) builds the AST node by node: a block under *)
(* the root, or an inline node under the last block when that block is a   *)
(* paragraph or a heading.  Nothing is parsed once a call has been made.    *)
(***************************************************************************)
Root == Parent("root", <<>>)

LastBlockOpen ==
    /\ doc.children # <<>>
    /\ doc.children[Len(doc.children)].type \in {"paragraph", "heading"}

AppendBlock(b) ==
    /\ ~input.defined
    /\ nodes < MaxNodes
    /\ doc' = [doc EXCEPT !.children = Append(@, b)]
    /\ nodes' = nodes + 1
    /\ UNCHANGED <<input, out>>
    /\ UNCHANGED runVars

AppendInline(x) ==
    /\ ~input.defined
    /\ nodes < MaxNodes
    /\ LastBlockOpen
    /\ doc' = [doc EXCEPT !.children[Len(doc.children)].children = Append(@, x)]
    /\ nodes' = nodes + 1
    /\ UNCHANGED <<input, out>>
    /\ UNCHANGED runVars

\* A call of findTexts(doc, visitor).
FindTexts(visitor) ==
    /\ ~input.defined
    /\ input' = Some([call |-> "findTexts", node |-> doc, visitor |-> visitor])
    /\ out' = Some(findTexts(doc, visitor))
    /\ UNCHANGED <<doc, nodes>>
    /\ UNCHANGED runVars

\* A call of extractDescription(doc, options).
ExtractDescription(options) ==
    /\ ~input.defined
    /\ input' = Some([call |-> "extractDescription", node |-> doc,
                      options |-> options])
    /\ out' = Some(extractDescription(doc, options))
    /\ UNCHANGED <<doc, nodes>>
    /\ UNCHANGED runVars

\* No run of execute is under way.
NoRun ==
    /\ config = [dumpArticleMetadata |-> FALSE, dumpArticleAST |-> FALSE,
                 dumpArticleHTML |-> FALSE, dumpTagMetadata |-> FALSE,
                 untitled |-> Undef]
    /\ stage = 0
    /\ abort = Undef
    /\ globbed = Undef
    /\ next = 1
    /\ result = [keys |-> <<>>, at |-> [k \in {} |-> Undef]]
    /\ articles = Undef
    /\ tagToArticleIndicesMap = Undef
    /\ tagKeys = <<>>
    /\ tags = [keys |-> <<>>, at |-> [k \in {} |-> Undef]]
    /\ tagRegistry = Undef
    /\ inflight = {}
    /\ disk = {}
    /\ dumpFailures = {}

InitText ==
    /\ doc = Root
    /\ nodes = 0
    /\ input = Undef
    /\ out = Undef
    /\ NoRun

(***************************************************************************)
(* SpecText: findTexts and extractDescription (called as collectArticle    *)
(* calls it, without options) on every document of at most MaxNodes nodes  *)
(* over these node kinds.                                                  *)
(***************************************************************************)
CodeValue == <<"k", "=", "1">>
ImageUrl == <<"u", ".", "p", "n", "g">>
ImageAlt == <<"a", "l", "t">>
HtmlValue == <<"<", "i", ">">>

TextInlines ==
    { Leaf("text", <<"a">>), Leaf("text", <<" ">>), Leaf("text", <<"\t", "b">>),
      Leaf("inlineCode", <<"c">>), Leaf("html", HtmlValue),
      Image(ImageUrl, ImageAlt),
      Parent("emphasis", <<Leaf("text", <<"e">>), Image(ImageUrl, ImageAlt)>>) }

TextBlocks ==
    { Parent("paragraph", <<>>), Parent("heading", <<>>),
      Leaf("code", CodeValue), Leaf("html", HtmlValue),
      Parent("blockquote",
             <<Parent("heading", <<Leaf("text", <<"q">>)>>),
               Leaf("code", CodeValue)>>) }

NextText ==
    \/ \E b \in TextBlocks : AppendBlock(b)
    \/ \E x \in TextInlines : AppendInline(x)
    \/ \E v \in {NoVisitor, SkipHeadings} : FindTexts(v)
    \/ ExtractDescription(Undef)

SpecText == InitText /\ [][NextText]_vars

\* The document's nodes in depth-first order, a subtree the visitor rejects
\* left out: what a traversal in document order meets.
RECURSIVE Preorder(_, _)
RECURSIVE PreorderOfChildren(_, _)
Preorder(node, visitor) ==
    IF ~Visit(visitor, node) THEN <<>>
    ELSE <<node>> \o PreorderOfChildren(node.children, visitor)
PreorderOfChildren(children, visitor) ==
    IF children = <<>> THEN <<>>
    ELSE Preorder(Head(children), visitor)
             \o PreorderOfChildren(Tail(children), visitor)

\* What one node may contribute by itself.
Contribution(node) ==
    IF node.type \in {"text", "inlineCode"} THEN <<node.value.val>>
    ELSE IF node.type \in {"code", "image"} THEN <<Placeholder>>
    ELSE <<>>

RECURSIVE Contributions(_)
Contributions(ns) ==
    IF ns = <<>> THEN <<>>
    ELSE Contribution(Head(ns)) \o Contributions(Tail(ns))

CalledFindTexts == input.defined /\ input.val.call = "findTexts"
CalledExtractDescription ==
    input.defined /\ input.val.call = "extractDescription"

\* C6: findTexts never emits the value of a code node nor the url or alt of
\* an image node: such a node gives the placeholder "..." (nothing when the
\* visitor prunes it), and text and inlineCode values come in depth-first
\* document order.
C6_FindTextsHidesCodeAndImages ==
    CalledFindTexts =>
        /\ \A i \in 1..Len(out.val) :
               out.val[i] \notin {CodeValue, ImageUrl, ImageAlt}
        /\ out.val = Contributions(Preorder(input.val.node, input.val.visitor))

\* A call with the heading visitor on a document whose block quote holds a
\* heading and a code block, followed by a paragraph with an image and a
\* text: two placeholders and the text came back, the heading's text did not.
C6_Witness ==
    /\ CalledFindTexts
    /\ input.val.visitor = SkipHeadings
    /\ Len(input.val.node.children) = 2
    /\ input.val.node.children[1].type = "blockquote"
    /\ input.val.node.children[2].type = "paragraph"
    /\ out.val = <<Placeholder, Placeholder, <<"a">> >>

IsTrimmedAndCollapsed(s) ==
    /\ \A i \in 1..Len(s) : s[i] \in Whitespace => s[i] = " "
    /\ \A i \in 1..(Len(s) - 1) :
           ~(s[i] \in Whitespace /\ s[i + 1] \in Whitespace)
    /\ s # <<>> => (s[1] \notin Whitespace /\ s[Len(s)] \notin Whitespace)

OptionMaxLength(options) ==
    IF options.defined THEN OrElse(options.val.maxLength, DefaultMaxLength)
    ELSE DefaultMaxLength
OptionEllipsis(options) ==
    IF options.defined THEN OrElse(options.val.ellipsis, DefaultEllipsis)
    ELSE DefaultEllipsis

\* C9: before truncation extractDescription collapses every run of
\* whitespace to one space and trims both ends, so a description that was
\* not truncated has no two adjacent whitespace characters and no
\* whitespace at either end.
C9_DescriptionNormalised ==
    (/\ CalledExtractDescription
     /\ Len(DescriptionSource(input.val.node))
            <= OptionMaxLength(input.val.options))
        => IsTrimmedAndCollapsed(out.val)

(***************************************************************************)
(* SpecDescription: extractDescription under every small option pair, on   *)
(* documents of paragraphs and headings of texts.                          *)
(***************************************************************************)
DescriptionInlines ==
    { Leaf("text", <<"a">>), Leaf("text", <<" ">>), Leaf("text", <<"b", "c">>) }

DescriptionBlocks == { Parent("paragraph", <<>>), Parent("heading", <<>>) }

Dots(n) == [i \in 1..n |-> "."]

OptionChoices ==
    {Undef} \cup
    { Some([maxLength |-> m, ellipsis |-> e]) :
        m \in {Undef} \cup {Some(k) : k \in 0..MaxLength},
        e \in {Undef} \cup {Some(Dots(k)) : k \in 0..MaxEllipsis} }

NextDescription ==
    \/ \E b \in DescriptionBlocks : AppendBlock(b)
    \/ \E x \in DescriptionInlines : AppendInline(x)
    \/ \E o \in OptionChoices : ExtractDescription(o)

SpecDescription == InitText /\ [][NextDescription]_vars

EndsWith(s, suffix) ==
    /\ Len(suffix) <= Len(s)
    /\ SubSeq(s, Len(s) - Len(suffix) + 1, Len(s)) = suffix

Truncated ==
    Len(DescriptionSource(input.val.node)) > OptionMaxLength(input.val.options)

\* C4: for every option pair, an ellipsis longer than maxLength
\* included, the description is at most maxLength long, and it ends with the
\* ellipsis whenever the source text was longer than maxLength.
C4_Original ==
    CalledExtractDescription =>
        /\ Len(out.val) <= OptionMaxLength(input.val.options)
        /\ Truncated => EndsWith(out.val, OptionEllipsis(input.val.options))

\* The bound of C4 on the option pairs whose ellipsis is not longer than
\* maxLength: there the description is at most maxLength long and ends with
\* the ellipsis when truncated.
C4_LengthBoundedWhenEllipsisFits ==
    (/\ CalledExtractDescription
     /\ Len(OptionEllipsis(input.val.options))
            <= OptionMaxLength(input.val.options))
        => /\ Len(out.val) <= OptionMaxLength(input.val.options)
           /\ Truncated => EndsWith(out.val, OptionEllipsis(input.val.options))

\* A truncating call whose ellipsis fits: a source of five characters cut to
\* maxLength 3 with a one-character ellipsis.
C4_Witness ==
    /\ CalledExtractDescription
    /\ input.val.options.defined
    /\ input.val.options.val.maxLength = Some(3)
    /\ input.val.options.val.ellipsis = Some(Dots(1))
    /\ Len(DescriptionSource(input.val.node)) = 5
    /\ out.val = <<"a", " ", ".">>

(***************************************************************************)
(* Frontmatter.  A JavaScript object is a function from its own keys to    *)
(* values, each value Undef (null) or Some(v).  The text of a frontmatter   *)
(* block or of a sidecar file is the record [raises, loads]: whether the    *)
(* format's parser raises a syntax error on it, and what it loads if not.   *)
(* A call that may throw returns Ok(v) or Err(e).                           *)
(***************************************************************************)
Ok(v) == [ok |-> TRUE, val |-> v]
Err(e) == [ok |-> FALSE, error |-> e]

EmptyObject == [k \in {} |-> Undef]
\* o[k] for an object o, and o?.[k] for a nullish-or-object o
Get(o, k) == IF k \in DOMAIN o THEN o[k] ELSE Undef
GetOpt(o, k) == IF o.defined THEN Get(o.val, k) ELSE Undef

\* toml.parse, yaml.safeLoad, JSON.parse
ParseFrontmatter(text) ==
    IF text.raises THEN Err("SyntaxError") ELSE Ok(text.loads)

RECURSIVE extractFrontmatter(_)
RECURSIVE extractFrontmatterOfChildren(_)
extractFrontmatter(node) ==
    IF node.type \in {"yaml", "toml"} THEN ParseFrontmatter(node.value.val)
    ELSE IF node.hasChildren THEN extractFrontmatterOfChildren(node.children)
    ELSE Ok(Undef)
extractFrontmatterOfChildren(children) ==
    IF children = <<>> THEN Ok(Undef)
    ELSE LET frontmatter == extractFrontmatter(Head(children)) IN
         IF ~frontmatter.ok \/ frontmatter.val.defined THEN frontmatter
         ELSE extractFrontmatterOfChildren(Tail(children))

\* sidecars maps each extension to the text of <name>.blog<ext>, Undef when
\* that file does not exist.
MetadataExts == <<".json", ".yml", ".yaml", ".toml">>
RECURSIVE ProbeMetadata(_, _)
ProbeMetadata(sidecars, i) ==
    IF i > Len(MetadataExts) THEN Ok(Undef)
    ELSE IF sidecars[MetadataExts[i]].defined
         THEN ParseFrontmatter(sidecars[MetadataExts[i]].val)
    ELSE ProbeMetadata(sidecars, i + 1)
findMetadataFrontmatter(sidecars) == ProbeMetadata(sidecars, 1)

\* { ...target, ...source }: the own keys of source are copied over target;
\* spreading a nullish source copies nothing.
Spread(target, source) ==
    IF ~source.defined THEN target
    ELSE [k \in DOMAIN target \cup DOMAIN source.val |->
             IF k \in DOMAIN source.val THEN source.val[k] ELSE target[k]]

\* The merge with the two spreads swapped: the inline frontmatter on top.
MergeFrontmatterInlineOnTop(markdownFrontmatter, metadataFrontmatter) ==
    IF metadataFrontmatter.defined \/ markdownFrontmatter.defined
    THEN Spread(Spread(EmptyObject, metadataFrontmatter), markdownFrontmatter)
    ELSE OrElse(metadataFrontmatter, OrElse(markdownFrontmatter, EmptyObject))

\* The frontmatter local of collectArticle.
MergeFrontmatter(markdownFrontmatter, metadataFrontmatter) ==
    IF metadataFrontmatter.defined \/ markdownFrontmatter.defined
    THEN Spread(Spread(EmptyObject, markdownFrontmatter), metadataFrontmatter)
    ELSE OrElse(metadataFrontmatter, OrElse(markdownFrontmatter, EmptyObject))

\* frontmatter["x-kleinboy"]?.[field]
Namespace(frontmatter, field) == GetOpt(Get(frontmatter, "x-kleinboy"), field)

\* The title with the heading asked before the namespace.
ArticleTitleHeadingFirst(frontmatter, markdownAST, untitled) ==
    OrElse(extractTitle(markdownAST),
           OrElse(Namespace(frontmatter, "title"), untitled))

ArticleTitle(frontmatter, markdownAST, untitled) ==
    OrElse(Namespace(frontmatter, "title"),
           OrElse(extractTitle(markdownAST), untitled))

\* collectArticle up to the debug dumps: Err when a frontmatter parser
\* raises, else Ok of the locals frontmatter and articleMetadata.
\* file is [ast, sidecars]; cfg.untitled is Undef or Some(title).
CollectMetadata(markdownPath, articlePath, file, cfg) ==
    LET untitled == OrElse(cfg.untitled, DefaultUntitled)
        markdownAST == file.ast
        markdownFrontmatter == extractFrontmatter(markdownAST)
        metadataFrontmatter == findMetadataFrontmatter(file.sidecars)
    IN IF ~markdownFrontmatter.ok THEN markdownFrontmatter
       ELSE IF ~metadataFrontmatter.ok THEN metadataFrontmatter
       ELSE LET frontmatter == MergeFrontmatter(markdownFrontmatter.val,
                                                metadataFrontmatter.val)
            IN Ok([frontmatter |-> frontmatter,
                   articleMetadata |->
                     [path |-> articlePath,
                      sourceType |-> "markdown",
                      sourcePath |-> markdownPath,
                      title |-> ArticleTitle(frontmatter, markdownAST, untitled),
                      description |->
                          OrElse(Namespace(frontmatter, "description"),
                                 extractDescription(markdownAST, Undef)),
                      tags |-> Get(frontmatter, "tags"),
                      images |->
                          OrElse(Namespace(frontmatter, "images"),
                                 extractImages(markdownAST)),
                      status |-> Namespace(frontmatter, "status"),
                      published_time |->
                          IF Namespace(frontmatter, "published_time").defined
                          THEN Namespace(frontmatter, "published_time")
                          ELSE Get(frontmatter, "date"),
                      modified_time |->
                          IF Namespace(frontmatter, "modified_time").defined
                          THEN Namespace(frontmatter, "modified_time")
                          ELSE Get(frontmatter, "date")]])

(***************************************************************************)
(* Paths are [segs, ext]: the segments between separators, and the         *)
(* extension of the last one ("" for none).                                *)
(***************************************************************************)
Path(segs, ext) == [segs |-> segs, ext |-> ext]

\* markdownPath.replace(/\.md$/, "") with the leading "articles/" sliced off
ArticlePathOf(markdownPath) ==
    LET stripped == Path(markdownPath.segs,
                         IF markdownPath.ext = ".md" THEN "" ELSE markdownPath.ext)
    IN IF Len(stripped.segs) > 1 /\ stripped.segs[1] = "articles"
       THEN Path(Tail(stripped.segs), stripped.ext)
       ELSE stripped

\* The frontmatter block remark-frontmatter puts first in the AST.
AppendFrontmatter(type, text) ==
    /\ ~input.defined
    /\ nodes < MaxNodes
    /\ doc.children = <<>>
    /\ doc' = [doc EXCEPT !.children = <<Leaf(type, text)>>]
    /\ nodes' = nodes + 1
    /\ UNCHANGED <<input, out>>
    /\ UNCHANGED runVars

\* A call of collectArticle (its debug dumps aside) on articles/a.md.
CollectArticleCall(sidecars, cfg) ==
    LET markdownPath == Path(<<"articles", "a">>, ".md") IN
    /\ ~input.defined
    /\ input' = Some([call |-> "collectArticle", node |-> doc,
                      sidecars |-> sidecars, config |-> cfg])
    /\ out' = Some(CollectMetadata(markdownPath, ArticlePathOf(markdownPath),
                                   [ast |-> doc, sidecars |-> sidecars], cfg))
    /\ UNCHANGED <<doc, nodes>>
    /\ UNCHANGED runVars

(***************************************************************************)
(* SpecArticle: collectArticle on every document of at most MaxNodes       *)
(* nodes over these kinds, with these frontmatter blocks and sidecars.      *)
(***************************************************************************)
Loads(object) == [raises |-> FALSE, loads |-> Some(object)]
Malformed == [raises |-> TRUE, loads |-> Undef]

Object1(k, v) == [x \in {k} |-> v]
Object2(k1, v1, k2, v2) == [x \in {k1, k2} |-> IF x = k1 THEN v1 ELSE v2]

FrontmatterTexts ==
    { Loads(Object2("title", Some(<<"A">>),
                    "x-kleinboy", Some(Object1("title", Some(<<"C">>))))),
      Loads(Object2("date", Some("2020-01-01"), "tags", Some(<<"go">>))),
      Loads(Object1("x-kleinboy", Some(Object1("status", Some("draft"))))),
      Malformed }

NoSidecars == [e \in {".json", ".yml", ".yaml", ".toml"} |-> Undef]

SidecarChoices ==
    { NoSidecars,
      [NoSidecars EXCEPT ![".json"] =
          Some(Loads(Object2("title", Some(<<"B">>), "date", Undef)))],
      [NoSidecars EXCEPT ![".yml"] =
          Some(Loads(Object1("x-kleinboy",
                             Some(Object1("status", Some("published"))))))],
      [NoSidecars EXCEPT
          ![".yaml"] = Some(Loads(Object1("x-kleinboy",
                                          Some(Object1("title", Some(<<"S">>)))))),
          ![".toml"] = Some(Malformed)],
      [NoSidecars EXCEPT ![".toml"] = Some(Malformed)] }

ConfigChoices == { [untitled |-> Undef], [untitled |-> Some(<<"N">>)] }

ArticleInlines == { Leaf("text", <<"a">>), Leaf("inlineCode", <<"c">>) }

ArticleBlocks ==
    { Parent("paragraph", <<>>), Parent("heading", <<>>),
      Parent("blockquote", <<Parent("heading", <<Leaf("text", <<"q">>)>>)>>) }

NextArticle ==
    \/ \E t \in {"yaml", "toml"}, y \in FrontmatterTexts : AppendFrontmatter(t, y)
    \/ \E b \in ArticleBlocks : AppendBlock(b)
    \/ \E x \in ArticleInlines : AppendInline(x)
    \/ \E sc \in SidecarChoices, c \in ConfigChoices : CollectArticleCall(sc, c)

SpecArticle == InitText /\ [][NextArticle]_vars

CollectedArticle ==
    input.defined /\ input.val.call = "collectArticle" /\ out.val.ok

\* The two sources as the call found them (both parse when it returned).
InlineSource == extractFrontmatter(input.val.node).val
SidecarSource == findMetadataFrontmatter(input.val.sidecars).val

\* C3: the merged frontmatter is a shallow per-key merge, the inline
\* frontmatter as base and the sidecar on top: a key the sidecar defines has
\* the sidecar's whole value, any other key the inline value; with one
\* source only the result equals it, with none it is the empty record.
C3_ShallowMerge ==
    CollectedArticle =>
        LET inline == InlineSource
            sidecar == SidecarSource
            merged == out.val.val.frontmatter
            keys(o) == IF o.defined THEN DOMAIN o.val ELSE {}
        IN /\ DOMAIN merged = keys(inline) \cup keys(sidecar)
           /\ \A k \in DOMAIN merged :
                  merged[k] = IF k \in keys(sidecar) THEN sidecar.val[k]
                              ELSE inline.val[k]
           /\ (inline.defined /\ ~sidecar.defined) => merged = inline.val
           /\ (sidecar.defined /\ ~inline.defined) => merged = sidecar.val
           /\ (~inline.defined /\ ~sidecar.defined) => merged = EmptyObject

\* Inline {title: "A", x-kleinboy: {title: "C"}} under a sidecar whose
\* x-kleinboy is {status: "published"}: the merge keeps the inline title
\* and takes the sidecar's whole namespace.
C3_Witness ==
    /\ CollectedArticle
    /\ InlineSource.defined /\ SidecarSource.defined
    /\ DOMAIN InlineSource.val = {"title", "x-kleinboy"}
    /\ DOMAIN SidecarSource.val = {"x-kleinboy"}
    /\ out.val.val.frontmatter["title"] = Some(<<"A">>)
    /\ out.val.val.frontmatter["x-kleinboy"]
           = Some(Object1("status", Some("published")))

\* The headings of the document in depth-first order.
Headings(node) ==
    LET ns == Preorder(node, NoVisitor) IN
    SelectSeq(ns, LAMBDA n : n.type = "heading")

\* C8: the title is the x-kleinboy title of the merged frontmatter when
\* present, else the space-joined findTexts of the first heading found
\* depth-first, else the configured untitled value ("(Untitled)" by
\* default); a missing heading or missing frontmatter never raises.
C8_TitlePrecedence ==
    /\ CollectedArticle =>
          LET namespace == Get(out.val.val.frontmatter, "x-kleinboy")
              nsTitle == IF namespace.defined /\ "title" \in DOMAIN namespace.val
                         THEN namespace.val["title"] ELSE Undef
              headings == Headings(input.val.node)
              title == out.val.val.articleMetadata.title
          IN IF nsTitle.defined THEN title = nsTitle.val
             ELSE IF headings # <<>>
                  THEN title = Join(findTexts(headings[1], NoVisitor), <<" ">>)
             ELSE IF input.val.config.untitled.defined
                  THEN title = input.val.config.untitled.val
             ELSE title = <<"(", "U", "n", "t", "i", "t", "l", "e", "d", ")">>
    /\ (input.defined /\ input.val.call = "collectArticle" /\ ~out.val.ok) =>
          \/ ~extractFrontmatter(input.val.node).ok
          \/ ~findMetadataFrontmatter(input.val.sidecars).ok

\* An article whose inline namespace title "C" won over its heading "a c".
C8_Witness ==
    /\ CollectedArticle
    /\ Headings(input.val.node) # <<>>
    /\ findTexts(Headings(input.val.node)[1], NoVisitor) = << <<"a">>, <<"c">> >>
    /\ out.val.val.articleMetadata.title = <<"C">>

\* An article without frontmatter and without heading: the default title.
C8_WitnessUntitled ==
    /\ CollectedArticle
    /\ ~InlineSource.defined /\ ~SidecarSource.defined
    /\ Headings(input.val.node) = <<>>
    /\ input.val.node.children # <<>>
    /\ out.val.val.articleMetadata.title = DefaultUntitled

(***************************************************************************)
(* Objects used as maps.  Such an object is [keys, at]: its own keys in    *)
(* insertion order (the order of Object.keys and Object.values for string   *)
(* keys that are no array indices) and the value at each own key.           *)
(***************************************************************************)
NewObject == [keys |-> <<>>, at |-> [k \in {} |-> Undef]]
OwnKeys(o) == DOMAIN o.at
\* o[k] = v
Put(o, k, v) ==
    IF k \in OwnKeys(o) THEN [o EXCEPT !.at[k] = v]
    ELSE [keys |-> Append(o.keys, k),
          at |-> [x \in OwnKeys(o) \cup {k} |-> IF x = k THEN v ELSE o.at[x]]]
ObjectValues(o) == [i \in 1..Len(o.keys) |-> o.at[o.keys[i]]]

makeArticleIndex(article) ==
    [path |-> article.path, status |-> article.status,
     published_time |-> article.published_time]

(***************************************************************************)
(* The comparator of orderedArticles.sort.  A JavaScript number is          *)
(* [nan |-> TRUE] or [nan |-> FALSE, val |-> n].                            *)
(***************************************************************************)
NaN == [nan |-> TRUE]
Num(n) == [nan |-> FALSE, val |-> n]

\* Date.parse on the published_time strings of the model, NaN for a string
\* that is no date.  The time is counted in days since the epoch, not in
\* milliseconds: sort reads only the sign of a difference.
DateParse(str) ==
    CASE str = "2020-01-01" -> Num(18262)
      [] str = "2021-01-01" -> Num(18628)
      [] OTHER -> NaN

\* The collation order of the path segments of the model.
SegmentOrder == <<"a", "b", "c", "go", "tags">>
SegmentRank(seg) == CHOOSE i \in 1..Len(SegmentOrder) : SegmentOrder[i] = seg

\* a.localeCompare(b) on paths: negative, zero or positive.
RECURSIVE CompareSegments(_, _)
CompareSegments(p, q) ==
    IF p = <<>> /\ q = <<>> THEN 0
    ELSE IF p = <<>> THEN -1
    ELSE IF q = <<>> THEN 1
    ELSE IF SegmentRank(Head(p)) < SegmentRank(Head(q)) THEN -1
    ELSE IF SegmentRank(Head(p)) > SegmentRank(Head(q)) THEN 1
    ELSE CompareSegments(Tail(p), Tail(q))
localeCompare(a, b) == CompareSegments(a.segs, b.segs)

Minus(x, y) == IF x.nan \/ y.nan THEN NaN ELSE Num(x.val - y.val)
Negate(x) == IF x.nan THEN NaN ELSE Num(-x.val)

ArticleComparator(a, b) ==
    IF ~a.published_time.defined /\ ~b.published_time.defined
    THEN Num(-localeCompare(a.path, b.path))
    ELSE IF ~a.published_time.defined THEN Num(-1)
    ELSE IF ~b.published_time.defined THEN Num(1)
    ELSE Negate(Minus(DateParse(a.published_time.val),
                      DateParse(b.published_time.val)))

(***************************************************************************)
(* Array.prototype.sort(comparefn).  A NaN from comparefn counts as +0.     *)
(* The sort is stable; when comparefn is no consistent comparison function  *)
(* for the elements, the order of the result is implementation-defined:     *)
(* any permutation.                                                         *)
(***************************************************************************)
SortCompare(a, b) ==
    LET v == ArticleComparator(a, b) IN IF v.nan THEN 0 ELSE v.val

ConsistentComparator(xs) ==
    LET E == {xs[i] : i \in 1..Len(xs)} IN
    /\ \A a \in E : SortCompare(a, a) = 0
    /\ \A a, b \in E :
           /\ SortCompare(a, b) = 0 => SortCompare(b, a) = 0
           /\ SortCompare(a, b) < 0 <=> SortCompare(b, a) > 0
    /\ \A a, b, c \in E :
           /\ (SortCompare(a, b) = 0 /\ SortCompare(b, c) = 0)
                  => SortCompare(a, c) = 0
           /\ (SortCompare(a, b) < 0 /\ SortCompare(b, c) < 0)
                  => SortCompare(a, c) < 0
           /\ (SortCompare(a, b) > 0 /\ SortCompare(b, c) > 0)
                  => SortCompare(a, c) > 0

\* x put into the sorted xs behind every element not greater than it
RECURSIVE InsertSorted(_, _)
InsertSorted(xs, x) ==
    IF xs = <<>> THEN <<x>>
    ELSE IF SortCompare(xs[Len(xs)], x) <= 0 THEN Append(xs, x)
    ELSE Append(InsertSorted(SubSeq(xs, 1, Len(xs) - 1), x), xs[Len(xs)])

RECURSIVE StableSort(_)
StableSort(xs) ==
    IF xs = <<>> THEN <<>>
    ELSE InsertSorted(StableSort(SubSeq(xs, 1, Len(xs) - 1)), xs[Len(xs)])

ArrayPermutations(xs) ==
    { [i \in 1..Len(xs) |-> xs[f[i]]] :
        f \in {g \in [1..Len(xs) -> 1..Len(xs)] :
                  \A i, j \in 1..Len(xs) : i # j => g[i] # g[j]} }

SortOutcomes(xs) ==
    IF ConsistentComparator(xs) THEN {StableSort(xs)} ELSE ArrayPermutations(xs)

\* What collectArticles returns for a result object: the registries sort
\* may leave.
ArticleRegistries(res) ==
    LET values == ObjectValues(res)
        indices == [i \in 1..Len(values) |-> makeArticleIndex(values[i])]
    IN { [articles |-> res, orderedArticles |-> ordered] :
           ordered \in SortOutcomes(indices) }

(***************************************************************************)
(* collectTags.  tagToArticleIndicesMap starts as the literal {}, which     *)
(* inherits the members of Object.prototype: m[k] for such a name is the    *)
(* inherited member, not undefined.  The state of the registration is       *)
(* [map, inherited]: the map itself, and for each inherited member the      *)
(* properties register has stored on it.                                    *)
(***************************************************************************)
ObjectPrototypeKeys ==
    {"constructor", "hasOwnProperty", "isPrototypeOf", "propertyIsEnumerable",
     "toLocaleString", "toString", "valueOf"}

NewRegistration ==
    [map |-> NewObject, inherited |-> [k \in ObjectPrototypeKeys |-> NewObject]]

\* getOrPrepare(m, k, () => ({})): the map afterwards, and whether the value
\* returned is the map's own m[k] or an inherited member.
getOrPrepare(m, k) ==
    IF k \in OwnKeys(m) THEN [m |-> m, own |-> TRUE]
    ELSE IF k \in ObjectPrototypeKeys THEN [m |-> m, own |-> FALSE]
    ELSE [m |-> Put(m, k, NewObject), own |-> TRUE]

\* register(m, k1, k2, value)
register(st, k1, k2, value) ==
    LET got == getOrPrepare(st.map, k1) IN
    IF got.own
    THEN [st EXCEPT !.map = Put(got.m, k1, Put(got.m.at[k1], k2, value))]
    ELSE [st EXCEPT !.inherited[k1] = Put(@, k2, value)]

RECURSIVE RegisterTags(_, _, _)
RegisterTags(st, article, i) ==
    IF i > Len(article.tags.val) THEN st
    ELSE RegisterTags(register(st, article.tags.val[i], article.path,
                               makeArticleIndex(article)),
                      article, i + 1)

\* The first loop of collectTags over Object.values(articles).
RECURSIVE RegisterArticles(_, _, _)
RegisterArticles(st, values, i) ==
    IF i > Len(values) THEN st
    ELSE IF ~values[i].tags.defined THEN RegisterArticles(st, values, i + 1)
    ELSE RegisterArticles(RegisterTags(st, values[i], 1), values, i + 1)

\* A tag key as a title
KeyTitle(key) ==
    CASE key = "go" -> <<"g", "o">>
      [] key = "js" -> <<"j", "s">>
      [] OTHER -> <<"c", "o", "n", "s", "t", "r", "u", "c", "t", "o", "r">>

(***************************************************************************)
(* The debug dumps of collectArticle.  fault names the awaited step the     *)
(* environment fails in this call ("none": no step fails).  A write is      *)
(* [target, by]: the file it writes and the source file it was issued for.  *)
(***************************************************************************)
DumpFaults(cfg) ==
    {"none"} \cup (IF cfg.dumpArticleAST THEN {"mkdir ast"} ELSE {})
             \cup (IF cfg.dumpArticleHTML THEN {"mkdir html", "run"} ELSE {})

DumpPath(kind, articlePath, ext) ==
    Path(<<"generated", kind>> \o articlePath.segs, ext)

DumpArticle(markdownPath, articlePath, cfg, fault) ==
    LET astWrite == [target |-> DumpPath("ast", articlePath, ".json"),
                     by |-> markdownPath]
        htmlWrite == [target |-> DumpPath("html", articlePath, ".html"),
                      by |-> markdownPath]
        failure == {[by |-> markdownPath, step |-> fault]}
    IN IF cfg.dumpArticleAST /\ fault = "mkdir ast"
       THEN [threw |-> TRUE, writes |-> {}, failures |-> failure]
       ELSE LET issued == IF cfg.dumpArticleAST THEN {astWrite} ELSE {} IN
            IF cfg.dumpArticleHTML /\ fault \in {"mkdir html", "run"}
            THEN [threw |-> TRUE, writes |-> issued, failures |-> failure]
            ELSE [threw |-> FALSE,
                  writes |-> issued \cup
                             (IF cfg.dumpArticleHTML THEN {htmlWrite} ELSE {}),
                  failures |-> {}]

\* collectArticle: what it returns or throws, the writes it issued and the
\* dump steps that failed.
collectArticle(markdownPath, articlePath, file, cfg, fault) ==
    LET collected == CollectMetadata(markdownPath, articlePath, file, cfg) IN
    IF ~collected.ok
    THEN [ret |-> collected, writes |-> {}, failures |-> {}]
    ELSE LET dump == DumpArticle(markdownPath, articlePath, cfg, fault) IN
         [ret |-> IF dump.threw THEN Err(fault)
                  ELSE Ok(collected.val.articleMetadata),
          writes |-> dump.writes, failures |-> dump.failures]

(***************************************************************************)
(* execute.  Its statements run in the order of ExecuteStages.              *)
(***************************************************************************)
\* execute writing articles.json before it collects the tags.
ExecuteStagesWriteFirst ==
    <<"collectArticles", "dumpArticleMetadata", "collectTags", "dumpTagMetadata">>

ExecuteStages ==
    <<"collectArticles", "collectTags", "dumpArticleMetadata", "dumpTagMetadata">>

Running(name) ==
    /\ stage \in 1..Len(ExecuteStages)
    /\ ExecuteStages[stage] = name
    /\ ~abort.defined

MaxArticles == 3    \* markdown files glob finds under articles/

\* What glob may return: the files in any order.
GlobResults(paths) ==
    UNION { {g \in [1..n -> paths] : \A i, j \in 1..n : i # j => g[i] # g[j]} :
              n \in 0..Min(MaxArticles, Cardinality(paths)) }

\* collectArticles up to its first collectArticle: the articles directory
\* is probed and globbed.  Without files it returns at once.
CollectArticlesBegin(paths) ==
    /\ Running("collectArticles")
    /\ ~globbed.defined
    /\ \E exists \in BOOLEAN :
          IF ~exists
          THEN /\ abort' = Some("articles doesn't exist")
               /\ UNCHANGED <<globbed, articles, stage>>
          ELSE \E g \in GlobResults(paths) :
                 /\ globbed' = Some(g)
                 /\ abort' = abort
                 /\ IF g = <<>>
                    THEN /\ articles' \in {Some(r) : r \in ArticleRegistries(result)}
                         /\ stage' = stage + 1
                    ELSE UNCHANGED <<articles, stage>>
    /\ UNCHANGED <<config, next, result, tagToArticleIndicesMap, tagKeys, tags,
                   tagRegistry, inflight, disk, dumpFailures>>
    /\ UNCHANGED textVars

\* One turn of the loop of collectArticles; after the last file the
\* articles are ordered and the registry is returned.
CollectArticlesStep(files) ==
    /\ Running("collectArticles")
    /\ globbed.defined
    /\ next <= Len(globbed.val)
    /\ \E file \in files, fault \in DumpFaults(config) :
          LET markdownPath == globbed.val[next]
              c == collectArticle(markdownPath, ArticlePathOf(markdownPath),
                                  file, config, fault)
          IN /\ inflight' = inflight \cup c.writes
             /\ dumpFailures' = dumpFailures \cup c.failures
             /\ IF ~c.ret.ok
                THEN /\ abort' = Some(c.ret.error)
                     /\ UNCHANGED <<next, result, articles, stage>>
                ELSE LET res == Put(result, c.ret.val.path, c.ret.val) IN
                     /\ result' = res
                     /\ next' = next + 1
                     /\ abort' = abort
                     /\ IF next = Len(globbed.val)
                        THEN /\ articles' \in {Some(r) : r \in ArticleRegistries(res)}
                             /\ stage' = stage + 1
                        ELSE UNCHANGED <<articles, stage>>
    /\ UNCHANGED <<config, globbed, tagToArticleIndicesMap, tagKeys, tags,
                   tagRegistry, disk>>
    /\ UNCHANGED textVars

\* collectTags up to its first probe of a tag page: the tag map is built.
\* Without tags it returns at once.
CollectTagsBegin ==
    /\ Running("collectTags")
    /\ ~tagToArticleIndicesMap.defined
    /\ LET st == RegisterArticles(NewRegistration,
                                  ObjectValues(articles.val.articles), 1)
       IN /\ tagToArticleIndicesMap' = Some(st)
          /\ tagKeys' = st.map.keys
          /\ IF st.map.keys = <<>>
             THEN /\ tagRegistry' = Some([tags |-> tags, tagToArticles |-> st.map])
                  /\ stage' = stage + 1
             ELSE UNCHANGED <<tagRegistry, stage>>
    /\ UNCHANGED <<config, abort, globbed, next, result, articles, tags,
                   inflight, disk, dumpFailures>>
    /\ UNCHANGED textVars

\* One turn of the second loop of collectTags: tags/<key>.md is probed and,
\* when it exists, collected; after the last key the registry is returned.
CollectTagsStep(pages) ==
    /\ Running("collectTags")
    /\ tagToArticleIndicesMap.defined
    /\ tagKeys # <<>>
    /\ \E page \in {Undef} \cup {Some(f) : f \in pages},
          fault \in DumpFaults(config) :
          LET key == Head(tagKeys)
              markdownPath == Path(<<"tags", key>>, ".md")
              c == IF page.defined
                   THEN collectArticle(markdownPath, Path(<<"tags", key>>, ""),
                                       page.val, config, fault)
                   ELSE [ret |-> Ok(Undef), writes |-> {}, failures |-> {}]
              made == IF page.defined
                      THEN [key |-> key, title |-> c.ret.val.title,
                            article |-> Some(c.ret.val)]
                      ELSE [key |-> key, title |-> KeyTitle(key),
                            article |-> Undef]
          IN /\ page.defined \/ fault = "none"
             /\ inflight' = inflight \cup c.writes
             /\ dumpFailures' = dumpFailures \cup c.failures
             /\ IF ~c.ret.ok
                THEN /\ abort' = Some(c.ret.error)
                     /\ UNCHANGED <<tagKeys, tags, tagRegistry, stage>>
                ELSE /\ tags' = Put(tags, key, made)
                     /\ tagKeys' = Tail(tagKeys)
                     /\ abort' = abort
                     /\ IF Tail(tagKeys) = <<>>
                        THEN /\ tagRegistry' =
                                  Some([tags |-> Put(tags, key, made),
                                        tagToArticles |->
                                            tagToArticleIndicesMap.val.map])
                             /\ stage' = stage + 1
                        ELSE UNCHANGED <<tagRegistry, stage>>
    /\ UNCHANGED <<config, globbed, next, result, articles,
                   tagToArticleIndicesMap, disk>>
    /\ UNCHANGED textVars

ArticlesJson == Path(<<"generated", "articles">>, ".json")
TagsJson == Path(<<"generated", "tags">>, ".json")

\* if (config.dumpArticleMetadata) { await mkdir; await writeFile }
DumpArticleMetadata ==
    /\ Running("dumpArticleMetadata")
    /\ articles.defined
    /\ \E ok \in BOOLEAN :
          IF config.dumpArticleMetadata /\ ~ok
          THEN abort' = Some("EIO") /\ UNCHANGED <<stage, disk>>
          ELSE /\ ok
               /\ disk' = IF config.dumpArticleMetadata
                          THEN disk \cup {ArticlesJson} ELSE disk
               /\ stage' = stage + 1
               /\ abort' = abort
    /\ UNCHANGED <<config, globbed, next, result, articles,
                   tagToArticleIndicesMap, tagKeys, tags, tagRegistry,
                   inflight, dumpFailures>>
    /\ UNCHANGED textVars

\* if (config.dumpTagMetadata) { await mkdir; await writeFile }
DumpTagMetadata ==
    /\ Running("dumpTagMetadata")
    /\ tagRegistry.defined
    /\ \E ok \in BOOLEAN :
          IF config.dumpTagMetadata /\ ~ok
          THEN abort' = Some("EIO") /\ UNCHANGED <<stage, disk>>
          ELSE /\ ok
               /\ disk' = IF config.dumpTagMetadata
                          THEN disk \cup {TagsJson} ELSE disk
               /\ stage' = stage + 1
               /\ abort' = abort
    /\ UNCHANGED <<config, globbed, next, result, articles,
                   tagToArticleIndicesMap, tagKeys, tags, tagRegistry,
                   inflight, dumpFailures>>
    /\ UNCHANGED textVars

\* An unawaited debug write settles: the file is written, or the write
\* fails and nobody hears of it.
WriteSettles ==
    /\ \E w \in inflight, ok \in BOOLEAN :
          /\ inflight' = inflight \ {w}
          /\ disk' = IF ok THEN disk \cup {w.target} ELSE disk
          /\ dumpFailures' = IF ok THEN dumpFailures
                             ELSE dumpFailures \cup
                                  {[by |-> w.by, step |-> "writeFile"]}
    /\ UNCHANGED <<config, stage, abort, globbed, next, result, articles,
                   tagToArticleIndicesMap, tagKeys, tags, tagRegistry>>
    /\ UNCHANGED textVars

(***************************************************************************)
(* The files of the model: a heading and a paragraph behind an optional    *)
(* frontmatter block, no sidecar.                                          *)
(***************************************************************************)
Body(title) ==
    <<Parent("heading", <<Leaf("text", title)>>),
      Parent("paragraph", <<Leaf("text", <<"a">>)>>)>>

PlainFile(title) ==
    [ast |-> Parent("root", Body(title)), sidecars |-> NoSidecars]
FileWith(text) ==
    [ast |-> Parent("root", <<Leaf("yaml", text)>> \o Body(<<"T">>)),
     sidecars |-> NoSidecars]

InitRun(configs) ==
    /\ doc = Root
    /\ nodes = 0
    /\ input = Undef
    /\ out = Undef
    /\ config \in configs
    /\ stage = 1
    /\ abort = Undef
    /\ globbed = Undef
    /\ next = 1
    /\ result = NewObject
    /\ articles = Undef
    /\ tagToArticleIndicesMap = Undef
    /\ tagKeys = <<>>
    /\ tags = NewObject
    /\ tagRegistry = Undef
    /\ inflight = {}
    /\ disk = {}
    /\ dumpFailures = {}

(***************************************************************************)
(* SpecRegistry: execute as the command line runs it without --debug, on   *)
(* up to MaxArticles of four articles with these contents.                 *)
(***************************************************************************)
DefaultConfig ==
    [dumpArticleMetadata |-> TRUE, dumpArticleAST |-> FALSE,
     dumpArticleHTML |-> FALSE, dumpTagMetadata |-> TRUE, untitled |-> Undef]

RegistryPaths ==
    { Path(<<"articles", "a">>, ".md"), Path(<<"articles", "b">>, ".md"),
      Path(<<"articles", "c">>, ".md"),
      Path(<<"articles", "tags", "go">>, ".md") }

RegistryFiles ==
    { PlainFile(<<"T">>),
      FileWith(Loads(Object2("date", Some("2020-01-01"),
                             "tags", Some(<<"go">>)))),
      FileWith(Loads(Object2(
          "x-kleinboy", Some(Object2("published_time", Some("2021-01-01"),
                                     "status", Some("draft"))),
          "tags", Some(<<"go", "js", "go">>)))),
      FileWith(Loads(Object2("date", Some("someday"),
                             "tags", Some(<<"constructor">>)))),
      FileWith(Malformed) }

TagPages == { PlainFile(<<"G", "o", " ", "L", "a", "n", "g">>), FileWith(Malformed) }

NextRegistry ==
    \/ CollectArticlesBegin(RegistryPaths)
    \/ CollectArticlesStep(RegistryFiles)
    \/ CollectTagsBegin
    \/ CollectTagsStep(TagPages)
    \/ DumpArticleMetadata
    \/ DumpTagMetadata

SpecRegistry == InitRun({DefaultConfig}) /\ [][NextRegistry]_vars

(***************************************************************************)
(* Spec: execute under every Config, the debug dumps and the failures of   *)
(* their steps included, on up to MaxArticles of articles/a.md and          *)
(* articles/tags/go.md.                                                     *)
(***************************************************************************)
Configs ==
    [dumpArticleMetadata : BOOLEAN, dumpArticleAST : BOOLEAN,
     dumpArticleHTML : BOOLEAN, dumpTagMetadata : BOOLEAN, untitled : {Undef}]

RunPaths ==
    { Path(<<"articles", "a">>, ".md"), Path(<<"articles", "tags", "go">>, ".md") }

RunFiles ==
    { PlainFile(<<"T">>),
      FileWith(Loads(Object1("tags", Some(<<"go">>)))),
      FileWith(Malformed),
      [ast |-> Parent("root", Body(<<"T">>)),
       sidecars |-> [NoSidecars EXCEPT ![".json"] = Some(Malformed)]] }

Next ==
    \/ CollectArticlesBegin(RunPaths)
    \/ CollectArticlesStep(RunFiles)
    \/ CollectTagsBegin
    \/ CollectTagsStep(TagPages)
    \/ DumpArticleMetadata
    \/ DumpTagMetadata
    \/ WriteSettles

Spec == InitRun(Configs) /\ [][Next]_vars

Dated(index) == index.published_time.defined
Parses(index) == ~DateParse(index.published_time.val).nan

\* orderedArticles holds the ArticleIndex of every article exactly once
ProjectsArticles(registry) ==
    LET ordered == registry.orderedArticles
        values == ObjectValues(registry.articles)
    IN /\ Len(ordered) = Len(values)
       /\ \A i \in 1..Len(values) :
              \E j \in 1..Len(ordered) :
                  /\ ordered[j].path = values[i].path
                  /\ ordered[j].status = values[i].status
                  /\ ordered[j].published_time = values[i].published_time

\* every article before position j is in its place before ordered[j]
InClaimedOrder(ordered) ==
    \A i, j \in 1..Len(ordered) :
        i < j =>
            /\ ~(Dated(ordered[i]) /\ ~Dated(ordered[j]))
            /\ (~Dated(ordered[i]) /\ ~Dated(ordered[j]))
                   => localeCompare(ordered[i].path, ordered[j].path) > 0
            /\ (/\ Dated(ordered[i]) /\ Dated(ordered[j])
                /\ Parses(ordered[i]) /\ Parses(ordered[j]))
                   => DateParse(ordered[i].published_time.val).val
                          >= DateParse(ordered[j].published_time.val).val

\* C1: orderedArticles is sorted by one total order, whatever the
\* published_time strings are: undated articles first, by descending path;
\* then dated ones, the most recent parsed date first.
C1_OrderedArticlesSorted ==
    articles.defined =>
        /\ ProjectsArticles(articles.val)
        /\ InClaimedOrder(articles.val.orderedArticles)

\* The same for the registries all of whose published_time strings parse:
\* this holds.
OrderedWhenDatesParse ==
    (/\ articles.defined
     /\ \A i \in 1..Len(articles.val.orderedArticles) :
            Dated(articles.val.orderedArticles[i])
                => Parses(articles.val.orderedArticles[i]))
        => /\ ProjectsArticles(articles.val)
           /\ InClaimedOrder(articles.val.orderedArticles)

ModelTags == {"go", "js", "constructor"}
ModelArticlePaths == {ArticlePathOf(p) : p \in RegistryPaths \cup RunPaths}

HasTag(article, t) ==
    /\ article.tags.defined
    /\ \E i \in 1..Len(article.tags.val) : article.tags.val[i] = t

TagsAgree(registry, tagReg, tagSet) ==
    LET arts == registry.articles
        tta == tagReg.tagToArticles
    IN \A t \in tagSet, p \in ModelArticlePaths :
          /\ (t \in OwnKeys(tta) /\ p \in OwnKeys(tta.at[t]))
                 <=> (p \in OwnKeys(arts) /\ HasTag(arts.at[p], t))
          /\ (t \in OwnKeys(tta) /\ p \in OwnKeys(tta.at[t]))
                 => tta.at[t].at[p] =
                        [path |-> arts.at[p].path, status |-> arts.at[p].status,
                         published_time |-> arts.at[p].published_time]

\* C5: in the TagRegistry collectTags returns, tagToArticles and tags have
\* the same keys, and tagToArticles[t][p] exists exactly when articles[p]
\* exists and has the tag t, and is then the ArticleIndex of articles[p].
C5_TagRegistryMatchesArticles ==
    tagRegistry.defined =>
        /\ OwnKeys(tagRegistry.val.tagToArticles) = OwnKeys(tagRegistry.val.tags)
        /\ TagsAgree(articles.val, tagRegistry.val, ModelTags)

\* The same for the tags that name no member of Object.prototype: this
\* holds.
TagsAgreeOffPrototype ==
    tagRegistry.defined =>
        /\ OwnKeys(tagRegistry.val.tagToArticles) = OwnKeys(tagRegistry.val.tags)
        /\ TagsAgree(articles.val, tagRegistry.val,
                     ModelTags \ ObjectPrototypeKeys)

\* The source file by was collected: its metadata is in a registry.
Collected(by) ==
    \/ ArticlePathOf(by) \in OwnKeys(result)
    \/ \E k \in OwnKeys(tags) :
          tags.at[k].article.defined /\ tags.at[k].article.val.sourcePath = by

\* C2: with the debug dumps enabled, the failure of a step of the dump of
\* one article (making the directory, the HTML transform, the write) never
\* makes collectArticle fail: the article is collected and the run goes on.
C2_DumpFailureNeverAborts ==
    \A f \in dumpFailures : abort # Some(f.step) /\ Collected(f.by)

\* C10: no two unawaited debug writes in flight target the same file.
C10_NoTwoWritesOnOneFile ==
    \A w1, w2 \in inflight : w1.target = w2.target => w1 = w2

FatalCauses == {"articles doesn't exist", "SyntaxError"}

\* C7: a run that aborted because the articles directory is missing or a
\* frontmatter parser raised has written neither generated/articles.json
\* nor generated/tags.json; with the directory missing it has written and
\* collected nothing at all.
C7_NoRegistryFileOnFatalAbort ==
    (abort.defined /\ abort.val \in FatalCauses) =>
        /\ ArticlesJson \notin disk
        /\ TagsJson \notin disk
        /\ abort.val = "articles doesn't exist" =>
               (disk = {} /\ inflight = {} /\ result = NewObject)

\* A run told to write both registries, whose articles were collected and
\* one debug file written, aborted by the frontmatter of a tag page.
C7_Witness ==
    /\ abort = Some("SyntaxError")
    /\ config.dumpArticleMetadata /\ config.dumpTagMetadata
    /\ articles.defined
    /\ tagToArticleIndicesMap.defined
    /\ disk # {}

====
